---- MODULE Spec2Model ----
(***************************************************************************)
(* zerto-rpo: a command-line client that reads credentials from a JSON     *)
(* file, logs in to the Zerto API (POST /v1/session/add, Basic Auth),      *)
(* queries GET /v1/vpgs with the session token and prints the average      *)
(* ActualRPO.  The repository holds two revisions of the program:          *)
(*   "main"  = src/main.go            queryVPGs prints, returns error      *)
(*   "part0" = src/unnamed/part_000   queryVPGs returns (int, error),      *)
(*                                    main prints                          *)
(* Both revisions are run side by side on the same environment (command    *)
(* line, config file, server responses).                                   *)
(***************************************************************************)
EXTENDS Integers, Sequences, FiniteSets, TLC

VARIABLES argv, file, loginResp, queryResp,
          pc, exitCode, stdout, stderr, reqs, config, sessionToken, divs

vars == <<argv, file, loginResp, queryResp,
          pc, exitCode, stdout, stderr, reqs, config, sessionToken, divs>>

Versions == {"main", "part0"}

(***************************************************************************)
(* Bounds of the model.                                                    *)
(***************************************************************************)
\* longest JSON array the server returns
MaxVPGs == 2
\* largest ActualRPO value the server returns
MaxRPO == 15

(***************************************************************************)
(* Program constants.                                                      *)
(***************************************************************************)
StatusOK == 200
\* exit status of log.Fatal / log.Fatalf
ExitFatal == 1
\* exit status of flag.Parse (flag.ExitOnError) on a bad flag
ExitUsage == 2
\* exit status of a Go runtime panic (integer divide by zero)
ExitPanic == 2
\* exit status when main returns, and of flag.Parse on -h
ExitOK == 0

(***************************************************************************)
(* JSON documents, as far as encoding/json tells them apart when decoding  *)
(* into Config and []VPG.                                                  *)
(***************************************************************************)
JInvalid == [t |-> "invalid"]
JNull == [t |-> "null"]
JAbsent == [t |-> "absent"]
JNum(n) == [t |-> "num", n |-> n]
JStr(s) == [t |-> "str", s |-> s]
JArr(es) == [t |-> "arr", e |-> es]
JConfigObj(u, p) == [t |-> "obj", username |-> u, password |-> p]
JVPGObj(r) == [t |-> "obj", ActualRPO |-> r]

\* json.Unmarshal of one object member into a Go string field
unmarshalString(j) ==
    IF j.t = "absent" \/ j.t = "null" THEN [err |-> FALSE, v |-> ""]
    ELSE IF j.t = "str" THEN [err |-> FALSE, v |-> j.s]
    ELSE [err |-> TRUE, v |-> ""]

\* json.Unmarshal of one object member into a Go int field
unmarshalInt(j) ==
    IF j.t = "absent" \/ j.t = "null" THEN [err |-> FALSE, v |-> 0]
    ELSE IF j.t = "num" THEN [err |-> FALSE, v |-> j.n]
    ELSE [err |-> TRUE, v |-> 0]

ZeroConfig == [Username |-> "", Password |-> ""]

\* json.Unmarshal(bytes, &config)
unmarshalConfig(j) ==
    IF j.t = "null" THEN [err |-> FALSE, config |-> ZeroConfig]
    ELSE IF j.t = "obj" THEN
        LET u == unmarshalString(j.username)
            p == unmarshalString(j.password)
        IN  [err |-> u.err \/ p.err,
             config |-> [Username |-> u.v, Password |-> p.v]]
    ELSE [err |-> TRUE, config |-> ZeroConfig]

\* json.Unmarshal of one array element into a VPG
unmarshalVPG(j) ==
    IF j.t = "null" THEN [err |-> FALSE, v |-> [ActualRPO |-> 0]]
    ELSE IF j.t = "obj" THEN
        LET r == unmarshalInt(j.ActualRPO)
        IN  [err |-> r.err, v |-> [ActualRPO |-> r.v]]
    ELSE [err |-> TRUE, v |-> [ActualRPO |-> 0]]

\* json.Unmarshal(body, &vpgs)
unmarshalVPGs(j) ==
    IF j.t = "null" THEN [err |-> FALSE, vpgs |-> <<>>]
    ELSE IF j.t = "arr" THEN
        [err |-> \E i \in 1..Len(j.e) : unmarshalVPG(j.e[i]).err,
         vpgs |-> [i \in 1..Len(j.e) |-> unmarshalVPG(j.e[i]).v]]
    ELSE [err |-> TRUE, vpgs |-> <<>>]

(***************************************************************************)
(* Go integer arithmetic and fmt formatting.                               *)
(***************************************************************************)
\* Variant of Quot: the quotient rounded toward minus infinity
Quot_floor(a, b) == a \div b

\* Go's a / b on ints, b # 0: the quotient truncated toward zero
Quot(a, b) ==
    IF (a >= 0) = (b > 0) \/ a = 0
    THEN (IF a >= 0 THEN a ELSE -a) \div (IF b > 0 THEN b ELSE -b)
    ELSE -((IF a >= 0 THEN a ELSE -a) \div (IF b > 0 THEN b ELSE -b))

\* a / b as the runtime executes it: integer division by zero panics
divide(a, b) ==
    IF b = 0 THEN [panic |-> TRUE, q |-> 0]
    ELSE [panic |-> FALSE, q |-> Quot(a, b)]

DigitChars == <<"0", "1", "2", "3", "4", "5", "6", "7", "8", "9">>

RECURSIVE Digits(_)
Digits(n) ==
    IF n < 10 THEN <<DigitChars[n + 1]>>
    ELSE Digits(n \div 10) \o <<DigitChars[(n % 10) + 1]>>

\* the verb %d of fmt, and fmt.Println's rendering of an int
FormatInt(n) == IF n < 0 THEN <<"-">> \o Digits(-n) ELSE Digits(n)

\* fmt.Printf("%d", n): no newline
Printf_d(n) == FormatInt(n)

\* fmt.Println(n) for an int n
Println_int(n) == FormatInt(n) \o <<"\n">>

\* fmt.Println("No VPGs found.")
NoVPGsFound ==
    <<"N", "o", " ", "V", "P", "G", "s", " ", "f", "o", "u", "n", "d", ".", "\n">>

\* totalRPO := 0; for _, vpg := range vpgs { totalRPO += vpg.ActualRPO }
\* The values the environment supplies (RPOValues) and their sums stay far
\* inside the range of Go's int, so the sum is the mathematical sum.
RECURSIVE totalRPO(_)
totalRPO(vpgs) ==
    IF vpgs = <<>> THEN 0
    ELSE totalRPO(SubSeq(vpgs, 1, Len(vpgs) - 1)) + vpgs[Len(vpgs)].ActualRPO

(***************************************************************************)
(* HTTP requests and responses.                                            *)
(***************************************************************************)
\* Variant of NewRequest: the X-Zerto-Session header is never set
NewRequest_noSession(method, path, basicAuth, session) ==
    [method |-> method, path |-> path, basicAuth |-> basicAuth,
     session |-> ""]

\* http.NewRequest + SetBasicAuth / Header.Set("X-Zerto-Session", ...)
NewRequest(method, path, basicAuth, session) ==
    [method |-> method, path |-> path, basicAuth |-> basicAuth,
     session |-> session]

LoginPath == "/v1/session/add"
VPGsPath == "/v1/vpgs"

(***************************************************************************)
(* The environment: command lines, config files, server responses.         *)
(***************************************************************************)
Argvs == [parse : {"ok", "help", "bad"}, config : {"", "cfg.json"}]

ConfigMembers == {JAbsent, JStr("admin"), JNum(1)}

ConfigDocs ==
    {JInvalid, JNull, JNum(1), JArr(<<>>)}
      \cup {JConfigObj(u, p) : u \in ConfigMembers, p \in ConfigMembers}

Files ==
    {[exists |-> FALSE, data |-> JInvalid]}
      \cup {[exists |-> TRUE, data |-> d] : d \in ConfigDocs}

LoginResps ==
    {[transportErr |-> TRUE, status |-> 0, session |-> ""]}
      \cup [transportErr : {FALSE}, status : {200, 201, 401},
            session : {"", "tokA", "tokB"}]

RPOValues == {-5, 2, 5, MaxRPO}

VPGElems ==
    {JVPGObj(JNum(n)) : n \in RPOValues}
      \cup {JVPGObj(JAbsent), JVPGObj(JStr("5")), JNull, JNum(1)}

Bodies ==
    {JInvalid, JNull, JNum(1), JVPGObj(JNum(5))}
      \cup {JArr(es) : es \in UNION {[1..n -> VPGElems] : n \in 0..MaxVPGs}}

QueryResps ==
    {[transportErr |-> TRUE, status |-> 0, readErr |-> FALSE, body |-> JInvalid],
     [transportErr |-> FALSE, status |-> 200, readErr |-> TRUE, body |-> JInvalid]}
      \cup [transportErr : {FALSE}, status : {200, 401, 500},
            readErr : {FALSE}, body : Bodies]

(***************************************************************************)
(* The program's functions.  Each takes what the call reads (arguments,    *)
(* the file, the server's response) and yields what the call produces      *)
(* (the request it sends, its results, what it prints).                    *)
(***************************************************************************)
\* Variant of readConfig: the error of json.Unmarshal is dropped
readConfig_ignoreDecodeErr(f) ==
    IF ~f.exists THEN [err |-> TRUE, config |-> ZeroConfig]
    ELSE [err |-> FALSE, config |-> unmarshalConfig(f.data).config]

\* readConfig: os.ReadFile, then json.Unmarshal into Config
readConfig(f) ==
    IF ~f.exists THEN [err |-> TRUE, config |-> ZeroConfig]
    ELSE LET u == unmarshalConfig(f.data)
         IN  IF u.err THEN [err |-> TRUE, config |-> ZeroConfig]
             ELSE [err |-> FALSE, config |-> u.config]

\* Variant of loginToZerto: the status code is not checked
loginToZerto_anyStatus(resp, username, password) ==
    LET req == NewRequest("POST", LoginPath, <<username, password>>, "")
    IN  IF resp.transportErr THEN [req |-> req, token |-> "", err |-> TRUE]
        ELSE IF resp.session = ""
             THEN [req |-> req, token |-> "", err |-> TRUE]
        ELSE [req |-> req, token |-> resp.session, err |-> FALSE]

\* Variant of loginToZerto: an empty session header is not checked
loginToZerto_emptyToken(resp, username, password) ==
    LET req == NewRequest("POST", LoginPath, <<username, password>>, "")
    IN  IF resp.transportErr THEN [req |-> req, token |-> "", err |-> TRUE]
        ELSE IF resp.status # StatusOK
             THEN [req |-> req, token |-> "", err |-> TRUE]
        ELSE [req |-> req, token |-> resp.session, err |-> FALSE]

\* loginToZerto: POST /v1/session/add with Basic Auth; the token is the
\* X-Zerto-Session header of a 200 response
loginToZerto(resp, username, password) ==
    LET req == NewRequest("POST", LoginPath, <<username, password>>, "")
    IN  IF resp.transportErr THEN [req |-> req, token |-> "", err |-> TRUE]
        ELSE IF resp.status # StatusOK
             THEN [req |-> req, token |-> "", err |-> TRUE]
        ELSE IF resp.session = ""
             THEN [req |-> req, token |-> "", err |-> TRUE]
        ELSE [req |-> req, token |-> resp.session, err |-> FALSE]

\* Variant of queryVPGs (main.go): divides without the len(vpgs) > 0 guard
queryVPGs_main_noGuard(resp, token) ==
    LET req == NewRequest("GET", VPGsPath, <<>>, token)
        dec == unmarshalVPGs(resp.body)
        fail == [req |-> req, err |-> TRUE, out |-> <<>>, divs |-> <<>>,
                 panic |-> FALSE]
    IN  IF resp.transportErr \/ resp.readErr THEN fail
        ELSE IF dec.err THEN fail
        ELSE LET d == divide(totalRPO(dec.vpgs), Len(dec.vpgs))
             IN  [req |-> req, err |-> FALSE,
                  out |-> IF d.panic THEN <<>> ELSE Printf_d(d.q),
                  divs |-> <<<<totalRPO(dec.vpgs), Len(dec.vpgs)>>>>,
                  panic |-> d.panic]

\* Variant of queryVPGs (main.go): prints before the decode error is checked
queryVPGs_main_printFirst(resp, token) ==
    LET req == NewRequest("GET", VPGsPath, <<>>, token)
        dec == unmarshalVPGs(resp.body)
        fail == [req |-> req, err |-> TRUE, out |-> <<>>, divs |-> <<>>,
                 panic |-> FALSE]
    IN  IF resp.transportErr \/ resp.readErr THEN fail
        ELSE IF Len(dec.vpgs) > 0
             THEN LET d == divide(totalRPO(dec.vpgs), Len(dec.vpgs))
                  IN  [req |-> req, err |-> dec.err,
                       out |-> IF d.panic THEN <<>> ELSE Printf_d(d.q),
                       divs |-> <<<<totalRPO(dec.vpgs), Len(dec.vpgs)>>>>,
                       panic |-> d.panic]
        ELSE [req |-> req, err |-> dec.err, out |-> NoVPGsFound,
              divs |-> <<>>, panic |-> FALSE]

\* Variant of queryVPGs (main.go): a status other than 200 is an error
queryVPGs_main_checkStatus(resp, token) ==
    LET req == NewRequest("GET", VPGsPath, <<>>, token)
        dec == unmarshalVPGs(resp.body)
        fail == [req |-> req, err |-> TRUE, out |-> <<>>, divs |-> <<>>,
                 panic |-> FALSE]
    IN  IF resp.transportErr \/ resp.readErr THEN fail
        ELSE IF resp.status # StatusOK THEN fail
        ELSE IF dec.err THEN fail
        ELSE IF Len(dec.vpgs) > 0
             THEN LET d == divide(totalRPO(dec.vpgs), Len(dec.vpgs))
                  IN  [req |-> req, err |-> FALSE,
                       out |-> IF d.panic THEN <<>> ELSE Printf_d(d.q),
                       divs |-> <<<<totalRPO(dec.vpgs), Len(dec.vpgs)>>>>,
                       panic |-> d.panic]
        ELSE [req |-> req, err |-> FALSE, out |-> NoVPGsFound, divs |-> <<>>,
              panic |-> FALSE]

\* queryVPGs of src/main.go: prints the average and returns an error
queryVPGs_main(resp, token) ==
    LET req == NewRequest("GET", VPGsPath, <<>>, token)
        dec == unmarshalVPGs(resp.body)
        fail == [req |-> req, err |-> TRUE, out |-> <<>>, divs |-> <<>>,
                 panic |-> FALSE]
    IN  IF resp.transportErr \/ resp.readErr THEN fail
        ELSE IF dec.err THEN fail
        ELSE IF Len(dec.vpgs) > 0
             THEN LET d == divide(totalRPO(dec.vpgs), Len(dec.vpgs))
                  IN  [req |-> req, err |-> FALSE,
                       out |-> IF d.panic THEN <<>> ELSE Printf_d(d.q),
                       divs |-> <<<<totalRPO(dec.vpgs), Len(dec.vpgs)>>>>,
                       panic |-> d.panic]
        ELSE [req |-> req, err |-> FALSE, out |-> NoVPGsFound, divs |-> <<>>,
              panic |-> FALSE]

\* Variant of queryVPGs (part_000): a status other than 200 is an error
queryVPGs_part0_checkStatus(resp, token) ==
    LET req == NewRequest("GET", VPGsPath, <<>>, token)
        dec == unmarshalVPGs(resp.body)
        fail == [req |-> req, err |-> TRUE, ret |-> 0, divs |-> <<>>,
                 panic |-> FALSE]
    IN  IF resp.transportErr \/ resp.readErr THEN fail
        ELSE IF resp.status # StatusOK THEN fail
        ELSE IF dec.err THEN fail
        ELSE IF Len(dec.vpgs) = 0
             THEN [req |-> req, err |-> FALSE, ret |-> 0, divs |-> <<>>,
                   panic |-> FALSE]
        ELSE LET d == divide(totalRPO(dec.vpgs), Len(dec.vpgs))
             IN  [req |-> req, err |-> FALSE, ret |-> d.q,
                  divs |-> <<<<totalRPO(dec.vpgs), Len(dec.vpgs)>>>>,
                  panic |-> d.panic]

\* queryVPGs of src/unnamed/part_000: returns (average, error)
queryVPGs_part0(resp, token) ==
    LET req == NewRequest("GET", VPGsPath, <<>>, token)
        dec == unmarshalVPGs(resp.body)
        fail == [req |-> req, err |-> TRUE, ret |-> 0, divs |-> <<>>,
                 panic |-> FALSE]
    IN  IF resp.transportErr \/ resp.readErr THEN fail
        ELSE IF dec.err THEN fail
        ELSE IF Len(dec.vpgs) = 0
             THEN [req |-> req, err |-> FALSE, ret |-> 0, divs |-> <<>>,
                   panic |-> FALSE]
        ELSE LET d == divide(totalRPO(dec.vpgs), Len(dec.vpgs))
             IN  [req |-> req, err |-> FALSE, ret |-> d.q,
                  divs |-> <<<<totalRPO(dec.vpgs), Len(dec.vpgs)>>>>,
                  panic |-> d.panic]

(***************************************************************************)
(* The state machine: main of each revision, one step per call.            *)
(***************************************************************************)
Init ==
    /\ argv \in Argvs
    /\ file \in Files
    /\ loginResp = <<>>
    /\ queryResp = <<>>
    /\ pc = [v \in Versions |-> "flag.Parse"]
    /\ exitCode = [v \in Versions |-> <<>>]
    /\ stdout = [v \in Versions |-> <<>>]
    /\ stderr = [v \in Versions |-> <<>>]
    /\ reqs = [v \in Versions |-> <<>>]
    /\ config = [v \in Versions |-> ZeroConfig]
    /\ sessionToken = [v \in Versions |-> ""]
    /\ divs = [v \in Versions |-> <<>>]

\* the process ends with status code, after msg went to standard error
Exit(v, code, msg) ==
    /\ pc' = [pc EXCEPT ![v] = "exited"]
    /\ exitCode' = [exitCode EXCEPT ![v] = <<code>>]
    /\ stderr' = [stderr EXCEPT ![v] = @ \o msg]

\* flag.Parse and the check of -config
main_flags(v) ==
    /\ pc[v] = "flag.Parse"
    /\ IF argv.parse = "help" THEN Exit(v, ExitOK, <<"usage">>)
       ELSE IF argv.parse = "bad" THEN Exit(v, ExitUsage, <<"usage">>)
       ELSE IF argv.config = ""
            THEN Exit(v, ExitFatal, <<"Config file path is required">>)
       ELSE /\ pc' = [pc EXCEPT ![v] = "readConfig"]
            /\ UNCHANGED <<exitCode, stderr>>
    /\ UNCHANGED <<argv, file, loginResp, queryResp, stdout, reqs, config,
                   sessionToken, divs>>

\* config, err := readConfig(*configFile)
main_readConfig(v) ==
    /\ pc[v] = "readConfig"
    /\ LET r == readConfig(file)
       IN  IF r.err
           THEN /\ Exit(v, ExitFatal, <<"Error reading config file">>)
                /\ UNCHANGED config
           ELSE /\ config' = [config EXCEPT ![v] = r.config]
                /\ pc' = [pc EXCEPT ![v] = "loginToZerto"]
                /\ UNCHANGED <<exitCode, stderr>>
    /\ UNCHANGED <<argv, file, loginResp, queryResp, stdout, reqs,
                   sessionToken, divs>>

\* sessionToken, err := loginToZerto(client, *serverIP, ...)
main_loginToZerto(v) ==
    /\ pc[v] = "loginToZerto"
    /\ \E resp \in (IF loginResp = <<>> THEN LoginResps ELSE {loginResp[1]}) :
         LET r == loginToZerto(resp, config[v].Username, config[v].Password)
         IN  /\ loginResp' = <<resp>>
             /\ reqs' = [reqs EXCEPT ![v] = Append(@, r.req)]
             /\ IF r.err
                THEN /\ Exit(v, ExitFatal, <<"Error logging in to Zerto API">>)
                     /\ UNCHANGED sessionToken
                ELSE /\ sessionToken' = [sessionToken EXCEPT ![v] = r.token]
                     /\ pc' = [pc EXCEPT ![v] = "queryVPGs"]
                     /\ UNCHANGED <<exitCode, stderr>>
    /\ UNCHANGED <<argv, file, queryResp, stdout, config, divs>>

\* src/main.go: err = queryVPGs(client, *serverIP, sessionToken)
main_queryVPGs ==
    /\ pc["main"] = "queryVPGs"
    /\ \E resp \in (IF queryResp = <<>> THEN QueryResps ELSE {queryResp[1]}) :
         LET r == queryVPGs_main(resp, sessionToken["main"])
         IN  /\ queryResp' = <<resp>>
             /\ reqs' = [reqs EXCEPT !["main"] = Append(@, r.req)]
             /\ divs' = [divs EXCEPT !["main"] = @ \o r.divs]
             /\ stdout' = [stdout EXCEPT !["main"] = @ \o r.out]
             /\ IF r.panic THEN Exit("main", ExitPanic, <<"panic">>)
                ELSE IF r.err
                     THEN Exit("main", ExitFatal, <<"Error querying VPGs">>)
                ELSE Exit("main", ExitOK, <<>>)
    /\ UNCHANGED <<argv, file, loginResp, config, sessionToken>>

\* src/unnamed/part_000: averageRPO, err := queryVPGs(...); fmt.Println
part0_queryVPGs ==
    /\ pc["part0"] = "queryVPGs"
    /\ \E resp \in (IF queryResp = <<>> THEN QueryResps ELSE {queryResp[1]}) :
         LET r == queryVPGs_part0(resp, sessionToken["part0"])
         IN  /\ queryResp' = <<resp>>
             /\ reqs' = [reqs EXCEPT !["part0"] = Append(@, r.req)]
             /\ divs' = [divs EXCEPT !["part0"] = @ \o r.divs]
             /\ IF r.panic
                THEN /\ Exit("part0", ExitPanic, <<"panic">>)
                     /\ UNCHANGED stdout
                ELSE IF r.err
                     THEN /\ Exit("part0", ExitFatal, <<"Error querying VPGs">>)
                          /\ UNCHANGED stdout
                ELSE /\ stdout' = [stdout EXCEPT !["part0"] =
                                       @ \o Println_int(r.ret)]
                     /\ Exit("part0", ExitOK, <<>>)
    /\ UNCHANGED <<argv, file, loginResp, config, sessionToken>>

Next ==
    \/ \E v \in Versions : main_flags(v)
    \/ \E v \in Versions : main_readConfig(v)
    \/ \E v \in Versions : main_loginToZerto(v)
    \/ main_queryVPGs
    \/ part0_queryVPGs

Spec == Init /\ [][Next]_vars

(***************************************************************************)
(* Vocabulary of the properties.                                           *)
(***************************************************************************)
Exited(v) == pc[v] = "exited"
ExitedWith(v, code) == Exited(v) /\ exitCode[v] = <<code>>
Failed(v) == Exited(v) /\ exitCode[v] # <<ExitOK>>

Sent(v, path) == {i \in DOMAIN reqs[v] : reqs[v][i].path = path}
LoginSent(v) == Sent(v, LoginPath) # {}
QuerySent(v) == Sent(v, VPGsPath) # {}

\* the login response this run received
LoginAnswered(v) == LoginSent(v) /\ loginResp # <<>>
LoginGood ==
    /\ loginResp # <<>>
    /\ ~loginResp[1].transportErr
    /\ loginResp[1].status = 200
    /\ loginResp[1].session # ""

\* the query response this run received, and the records in its body
QueryAnswered(v) == QuerySent(v) /\ queryResp # <<>>
QueryDelivered ==
    /\ queryResp # <<>>
    /\ ~queryResp[1].transportErr
    /\ ~queryResp[1].readErr
QueryDecoded == QueryDelivered /\ ~unmarshalVPGs(queryResp[1].body).err
Records == unmarshalVPGs(queryResp[1].body).vpgs

\* the sum of the ActualRPO values, by index
RECURSIVE SumUpTo(_, _)
SumUpTo(rs, k) == IF k = 0 THEN 0 ELSE SumUpTo(rs, k - 1) + rs[k].ActualRPO
SumOf(rs) == SumUpTo(rs, Len(rs))

\* q is s / n rounded toward zero (n > 0)
IsTruncatedQuotient(q, s, n) ==
    IF s >= 0 THEN q >= 0 /\ q * n <= s /\ s < (q + 1) * n
    ELSE q <= 0 /\ q * n >= s /\ s > (q - 1) * n

\* reading a printed decimal integer back
DigitValue(c) == CHOOSE d \in 0..9 : DigitChars[d + 1] = c
IsDigit(c) == \E d \in 0..9 : DigitChars[d + 1] = c
RECURSIVE ParseDigits(_)
ParseDigits(cs) ==
    IF Len(cs) = 1 THEN DigitValue(cs[1])
    ELSE 10 * ParseDigits(SubSeq(cs, 1, Len(cs) - 1)) + DigitValue(cs[Len(cs)])
StripNewline(cs) ==
    IF cs # <<>> /\ cs[Len(cs)] = "\n" THEN SubSeq(cs, 1, Len(cs) - 1) ELSE cs
IsDecimal(cs) ==
    LET body == IF cs # <<>> /\ cs[1] = "-" THEN Tail(cs) ELSE cs
    IN  body # <<>> /\ \A i \in DOMAIN body : IsDigit(body[i])
ParseInt(cs) ==
    IF cs[1] = "-" THEN -ParseDigits(Tail(cs)) ELSE ParseDigits(cs)
PrintsInt(v) == IsDecimal(StripNewline(stdout[v]))
PrintedInt(v) == ParseInt(StripNewline(stdout[v]))

(***************************************************************************)
(* C1.  For every non-empty decoded record list, what either revision      *)
(* prints is the sum of the ActualRPO values divided by the number of      *)
(* records, rounded toward zero: [5,15] gives 10 and [-5,2] gives -1.      *)
(***************************************************************************)
C1_AverageTruncates ==
    \A v \in Versions :
        (Exited(v) /\ QueryAnswered(v) /\ QueryDecoded /\ Len(Records) > 0)
        => /\ PrintsInt(v)
           /\ IsTruncatedQuotient(PrintedInt(v), SumOf(Records), Len(Records))
           /\ (queryResp[1].body = JArr(<<JVPGObj(JNum(5)), JVPGObj(JNum(MaxRPO))>>)
                 => PrintedInt(v) = Quot(5 + MaxRPO, 2))
           /\ (queryResp[1].body = JArr(<<JVPGObj(JNum(-5)), JVPGObj(JNum(2))>>)
                 => PrintedInt(v) = -1)

C1_Witness ==
    /\ queryResp # <<>>
    /\ queryResp[1].body = JArr(<<JVPGObj(JNum(-5)), JVPGObj(JNum(2))>>)
    /\ stdout["main"] = <<"-", "1">>
    /\ stdout["part0"] = <<"-", "1", "\n">>

NeutralOutput(v) == IF v = "main" THEN NoVPGsFound ELSE <<"0", "\n">>

(***************************************************************************)
(* C2.  Every division executed has a divisor greater than zero; a run     *)
(* whose decoded list is empty (JSON [] or null) divides nothing, does not *)
(* fail, prints its neutral output and exits with status zero.             *)
(***************************************************************************)
C2_NoDivisionByZero ==
    \A v \in Versions :
        /\ \A i \in DOMAIN divs[v] : divs[v][i][2] > 0
        /\ (Exited(v) /\ QueryAnswered(v) /\ QueryDecoded /\ Len(Records) = 0)
           => /\ divs[v] = <<>>
              /\ exitCode[v] = <<ExitOK>>
              /\ stderr[v] = <<>>
              /\ stdout[v] = NeutralOutput(v)

C2_Witness ==
    /\ queryResp # <<>>
    /\ queryResp[1].body \in {JNull, JArr(<<>>)}
    /\ \A v \in Versions : ExitedWith(v, ExitOK) /\ QueryAnswered(v)
    /\ divs = [v \in Versions |-> <<>>]

(***************************************************************************)
(* C3.  After a login response with a status other than 200 the run fails  *)
(* with a nonzero exit and sends no GET /v1/vpgs; the query is sent only   *)
(* when login returned status 200 with a non-empty session token.          *)
(***************************************************************************)
C3_NoQueryAfterFailedLogin ==
    \A v \in Versions :
        /\ (LoginAnswered(v) /\ ~loginResp[1].transportErr
              /\ loginResp[1].status # 200)
           => /\ Failed(v)
              /\ stderr[v] = <<"Error logging in to Zerto API">>
              /\ ~QuerySent(v)
        /\ QuerySent(v) => LoginGood

C3_Witness ==
    /\ loginResp # <<>>
    /\ loginResp[1].status = 401
    /\ loginResp[1].session = "tokA"
    /\ \A v \in Versions : ExitedWith(v, ExitFatal) /\ LoginSent(v)

(***************************************************************************)
(* C4.  A 200 login response without (or with an empty) X-Zerto-Session    *)
(* header makes loginToZerto return an error: the run fails with a nonzero *)
(* exit, no query is sent, and no run goes on with an empty token.         *)
(***************************************************************************)
C4_MissingTokenIsError ==
    \A v \in Versions :
        /\ (LoginAnswered(v) /\ ~loginResp[1].transportErr
              /\ loginResp[1].status = 200 /\ loginResp[1].session = "")
           => /\ Failed(v)
              /\ stderr[v] = <<"Error logging in to Zerto API">>
              /\ ~QuerySent(v)
        /\ (pc[v] = "queryVPGs" \/ QuerySent(v)) => sessionToken[v] # ""

C4_Witness ==
    /\ loginResp # <<>>
    /\ ~loginResp[1].transportErr
    /\ loginResp[1].status = 200
    /\ loginResp[1].session = ""
    /\ \A v \in Versions : ExitedWith(v, ExitFatal) /\ LoginSent(v)

ConfigRead(v) ==
    /\ argv.parse = "ok"
    /\ argv.config # ""
    /\ pc[v] \notin {"flag.Parse", "readConfig"}

WellFormedConfig ==
    /\ file.exists
    /\ file.data.t = "obj"
    /\ file.data.username.t = "str"
    /\ file.data.password.t = "str"

(***************************************************************************)
(* C5.  Whenever the config file is missing or is not a JSON object with   *)
(* username and password, readConfig returns an error: the run fails with  *)
(* a nonzero exit and sends no HTTP request.                               *)
(***************************************************************************)
C5_MalformedConfigRejected ==
    \A v \in Versions :
        (ConfigRead(v) /\ ~WellFormedConfig)
        => /\ Failed(v)
           /\ stderr[v] = <<"Error reading config file">>
           /\ reqs[v] = <<>>

ConfigGood == file.exists /\ ~unmarshalConfig(file.data).err

AllStagesSucceeded(v) ==
    /\ ConfigRead(v) /\ ConfigGood
    /\ LoginAnswered(v) /\ LoginGood
    /\ QueryAnswered(v) /\ QueryDecoded

AStageFailed(v) ==
    \/ ConfigRead(v) /\ ~ConfigGood
    \/ LoginAnswered(v) /\ ~LoginGood
    \/ QueryAnswered(v) /\ ~QueryDecoded

ResultPrinted(v) ==
    IF Len(Records) > 0
    THEN /\ PrintsInt(v)
         /\ IsTruncatedQuotient(PrintedInt(v), SumOf(Records), Len(Records))
    ELSE stdout[v] = NeutralOutput(v)

(***************************************************************************)
(* C6.  A run exits with status zero and its result on standard output     *)
(* (the average, or the neutral output for an empty list) exactly when     *)
(* config load, login and query+decode all succeeded; a failure of any of  *)
(* the three stages ends the run with a nonzero exit.                      *)
(***************************************************************************)
C6_ExitZeroIffAllStagesSucceed ==
    \A v \in Versions :
        Exited(v)
        => /\ (exitCode[v] = <<ExitOK>> /\ stdout[v] # <<>>)
                <=> AllStagesSucceeded(v)
           /\ AllStagesSucceeded(v) => ResultPrinted(v)
           /\ AStageFailed(v) => exitCode[v] \notin {<<>>, <<ExitOK>>}

C6_Witness ==
    /\ \A v \in Versions : ExitedWith(v, ExitOK) /\ AllStagesSucceeded(v)
    /\ queryResp[1].body = JArr(<<JVPGObj(JNum(5)), JVPGObj(JNum(MaxRPO))>>)
    /\ PrintedInt("main") = PrintedInt("part0")

StageRank(p) ==
    CASE p = "flag.Parse" -> 0
      [] p = "readConfig" -> 1
      [] p = "loginToZerto" -> 2
      [] p = "queryVPGs" -> 3
      [] p = "exited" -> 4

C7_State ==
    \A v \in Versions :
        /\ Cardinality(Sent(v, LoginPath)) <= 1
        /\ Cardinality(Sent(v, VPGsPath)) <= 1
        /\ Len(reqs[v]) <= 2
        /\ Failed(v) => stdout[v] = <<>>

C7_Step ==
    \A v \in Versions :
        /\ StageRank(pc'[v]) >= StageRank(pc[v])
        /\ Exited(v) => /\ pc'[v] = pc[v]
                        /\ exitCode'[v] = exitCode[v]
                        /\ reqs'[v] = reqs[v]
                        /\ stdout'[v] = stdout[v]
                        /\ stderr'[v] = stderr[v]

(***************************************************************************)
(* C7.  Failures are terminal, without retries or partial results: a run   *)
(* sends the login POST at most once and the query GET at most once, a run *)
(* that has exited does nothing more and no run steps back to an earlier   *)
(* stage, and a run that ended in failure has written nothing to standard  *)
(* output.                                                                 *)
(***************************************************************************)
C7_FailuresAreTerminal == [](C7_State) /\ [][C7_Step]_vars

C7_Witness ==
    /\ queryResp # <<>>
    /\ ~QueryDecoded
    /\ \A v \in Versions :
          /\ ExitedWith(v, ExitFatal)
          /\ Len(reqs[v]) = 2
          /\ stdout[v] = <<>>

(***************************************************************************)
(* C8.  The X-Zerto-Session header of every GET /v1/vpgs is the non-empty  *)
(* X-Zerto-Session header of the 200 login response of the same run, and   *)
(* the token is not changed between login and query.                       *)
(***************************************************************************)
C8_QueryCarriesLoginToken ==
    \A v \in Versions :
        /\ \A i \in Sent(v, VPGsPath) :
              /\ LoginGood
              /\ reqs[v][i].method = "GET"
              /\ reqs[v][i].session = loginResp[1].session
              /\ reqs[v][i].session # ""
        /\ pc[v] = "queryVPGs"
           => LoginGood /\ sessionToken[v] = loginResp[1].session

C8_Witness ==
    /\ loginResp # <<>>
    /\ loginResp[1].session = "tokB"
    /\ \A v \in Versions :
          \E i \in Sent(v, VPGsPath) : reqs[v][i].session = "tokB"

(***************************************************************************)
(* C9.  The outcome of the query step is decided by the response body      *)
(* alone, whatever the HTTP status of the GET /v1/vpgs response: a body    *)
(* that decodes as a JSON array or null gives exit zero and the result on  *)
(* standard output, also under status 401 or 500; a body that does not     *)
(* decode gives a failure with nothing printed.                            *)
(***************************************************************************)
C9_QueryStatusIgnored ==
    \A v \in Versions :
        (Exited(v) /\ QueryAnswered(v) /\ QueryDelivered)
        => /\ exitCode[v] = <<ExitOK>> <=> QueryDecoded
           /\ QueryDecoded => ResultPrinted(v)
           /\ ~QueryDecoded => stdout[v] = <<>>

C9_Witness ==
    /\ QueryDecoded
    /\ queryResp[1].status = 500
    /\ Len(Records) > 0
    /\ \A v \in Versions :
          ExitedWith(v, ExitOK) /\ QueryAnswered(v) /\ PrintsInt(v)

BothExited == \A v \in Versions : Exited(v)

SameRun ==
    /\ exitCode["main"] = exitCode["part0"]
    /\ stderr["main"] = stderr["part0"]
    /\ reqs["main"] = reqs["part0"]
    /\ (stdout["main"] = <<>>) = (stdout["part0"] = <<>>)

BothAveraged ==
    /\ BothExited
    /\ \A v \in Versions : QueryAnswered(v)
    /\ QueryDecoded

(***************************************************************************)
(* C10.  The two revisions are observationally equivalent: on the same     *)
(* config, login response and query response they end in the same stage    *)
(* with the same exit status, send the same requests, print the same       *)
(* integer for a non-empty record list, and emit the same neutral output   *)
(* for an empty list.                                                      *)
(***************************************************************************)
C10_VersionsEquivalent ==
    BothExited
    => /\ SameRun
       /\ (BothAveraged /\ Len(Records) > 0)
          => /\ PrintsInt("main") /\ PrintsInt("part0")
             /\ PrintedInt("main") = PrintedInt("part0")
       /\ (BothAveraged /\ Len(Records) = 0)
          => stdout["main"] = stdout["part0"]

(***************************************************************************)
(* C10, amended.  The two revisions agree in everything but the neutral    *)
(* output: same final stage, exit status and requests, the same integer    *)
(* for a non-empty list; for an empty list src/main.go prints              *)
(* "No VPGs found." and src/unnamed/part_000 prints 0.                     *)
(***************************************************************************)
C10_VersionsEquivalentButNeutral ==
    BothExited
    => /\ SameRun
       /\ (BothAveraged /\ Len(Records) > 0)
          => /\ PrintsInt("main") /\ PrintsInt("part0")
             /\ PrintedInt("main") = PrintedInt("part0")
       /\ (BothAveraged /\ Len(Records) = 0)
          => /\ stdout["main"] = NoVPGsFound
             /\ stdout["part0"] = <<"0", "\n">>

C10_Witness ==
    /\ BothAveraged
    /\ Len(Records) = 0
    /\ stdout["main"] = NoVPGsFound
    /\ stdout["part0"] = <<"0", "\n">>
    /\ exitCode["main"] = <<ExitOK>>
    /\ exitCode["part0"] = <<ExitOK>>

====
